---------------------------- MODULE Spec2Model ----------------------------
(***************************************************************************)
(* Model of the real-time event core of familylist:                        *)
(*   - EventBroadcaster  (backend/app/services/event_broadcaster.py)       *)
(*   - NotificationQueue (backend/app/services/notification_queue.py)      *)
(*   - the preference check of backend/app/services/push_service.py        *)
(*   - their callers in backend/app/api/items.py and api/stream.py         *)
(*                                                                         *)
(* Both run on one asyncio event loop.  A coroutine runs without           *)
(* interruption until it really suspends, so every action below is the     *)
(* code between two suspension points.  In the broadcaster the only real   *)
(* suspension is the subscriber's queue.get(); in the notification queue   *)
(* the only real suspension is asyncio.sleep() of a timer task and the     *)
(* start of a task made by asyncio.create_task.  No lock is ever held      *)
(* across one of these, so no lock acquisition ever waits.  Tasks that are *)
(* ready to run are run in any order.                                      *)
(***************************************************************************)
EXTENDS Integers, Sequences, FiniteSets, TLC

VARIABLES
    \* ---- EventBroadcaster ----
    subscribers,   \* self._subscribers: list_id -> set of subscriber queues
    locks,         \* keys of self._locks
    pc,            \* per subscription slot: "idle" | "waiting" (in queue.get)
    subList,       \* list_id the slot's subscribe() call was made for
    mailbox,       \* content of the slot's asyncio.Queue
    connected,     \* whether the SSE client behind the slot is still connected
    received,      \* events the generator has yielded to its consumer, in order
    published,     \* number of publish() calls so far (event identity)
    timeouts,      \* per slot: bounded waits that timed out since the last event
    request,       \* the last publish_event_async call: what its two halves did
                   \* and the exception that reached its caller
    \* ---- NotificationQueue ----
    now,           \* clock (model time units)
    batches,       \* self._batches: batch key -> BatchState
    tasks,         \* pending asyncio tasks made by the queue (timers, forced flushes);
                   \* a task is named by the event whose enqueue created it
    nextId,        \* identity of the next PendingEvent
    lastCall,      \* arguments of the most recent queue_event call
    flushed,       \* per batch key, the batch that _flush_batch popped last and
                   \* handed to format/send, with what the flush did with it
    delivered,     \* per batch key, the ids of all events handed to format/send
                   \* so far, in the order of the flushes
    prefs,         \* rows of NotificationPreferences: user_id -> preferences
    \* ---- api/stream.py ----
    sse,           \* per slot: what event_generator did with each event that
                   \* subscribe() yielded to it, in order
    \* ---- api/items.py, api/lists.py, api/shares.py ----
    db,            \* per list: whether the row exists, owner_id, list_shares rows
    background_tasks, \* tasks added by handlers and not run yet, in order
    handled,       \* the committed mutations, in order
    calls,         \* per committed mutation: the publish and queue_event calls made for it
    \* ---- EventBroadcaster, lock by lock ----
    list_locks,    \* self._locks with the identity of each asyncio.Lock
    held,          \* the locks that are locked: lock -> task that holds it
    registry,      \* self._subscribers: list_id -> tasks whose queue is in the set
    lpc,           \* per task: the await or block it is at
    lock,          \* per task: its local variable lock
    running,       \* the task the event loop is running, None between two tasks
    lockCount,     \* asyncio.Lock objects made so far for the lists
    lockOps        \* subscribe() and publish() calls started so far

bvars == <<subscribers, locks, pc, subList, mailbox, connected, received, published,
           timeouts, request>>
qvars == <<now, batches, tasks, nextId, lastCall, flushed, delivered, prefs>>
hvars == <<db, background_tasks, handled, calls>>
lvars == <<list_locks, held, registry, lpc, lock, running, lockCount, lockOps>>
vars  == <<subscribers, locks, pc, subList, mailbox, connected, received, published,
           timeouts, request, now, batches, tasks, nextId, lastCall, flushed, delivered, prefs,
           sse, db, background_tasks, handled, calls,
           list_locks, held, registry, lpc, lock, running, lockCount, lockOps>>

---------------------------------------------------------------------------
(* Bounds of the model *)

Lists == {"L1", "L2"}
Subs  == {"s1", "s2", "s3"}

\* SUBSCRIBER_QUEUE_SIZE is 100 in the source (event_broadcaster.py:16); the
\* model uses a small capacity so that a full mailbox is reached.
SUBSCRIBER_QUEUE_SIZE == 2

\* publish() calls explored
MaxPublish == 3

Users == {"u1", "u2"}

\* users that call queue_event; "" is the actor of a request without a user
\* (api/items.py:122, event.user_id or "")
Actors == Users \cup {""}

\* lists that get push notifications
QLists == {"L1"}

\* recipient_user_ids: owner plus shares, without repetition (api/items.py:54-76)
RecipientLists == {<<"u1">>, <<"u2">>, <<"u1", "u2">>}

\* The delays of notification_queue.py:25-28 are 30, 10 and 120 seconds and
\* MAX_EVENTS is 15.  The model keeps their order (EXTEND < INITIAL < MAX) and
\* scales them down so that every branch of the timer arithmetic is reached
\* within a few events.
INITIAL_DELAY == 3
EXTEND_DELAY == 2
MAX_DELAY == 4
MAX_EVENTS == 4

\* queue_event calls explored with every actor and recipient list
MaxEnq == 4

\* queue_event calls explored for one batch key (a burst)
MaxBurst == 8

\* the clock stops here when one key is followed
MaxTime == 6

\* the clock stops here when every actor and recipient list is followed
MaxQueueTime == 3

\* queue_event calls explored while preferences change and collaborators fail
MaxFlushEnq == 2

\* queue_event calls explored with events of every kind
MaxFormatEnq == 4

\* publish_event_async calls explored
MaxRequests == 4

\* bounded waits of one subscriber that time out in a row
MaxTimeouts == 2

\* the slots and the list of the SSE sessions followed
StreamSubs == {"s1", "s2"}
StreamLists == {"L1"}

None == "None"

\* the list the handlers of api/items.py and api/lists.py work on
HandlerLists == {"L1"}

\* a row of lists with its list_shares rows: owner_id is a set of at most
\* one user (the column is nullable), shares are the user_id of the rows in
\* the order the query returns them
ListRow(owner_id, shares) == [exists |-> TRUE, owner_id |-> owner_id, shares |-> shares]

\* tasks of the event loop that call subscribe() and publish()
LockTasks == {"t1", "t2", "t3"}

\* list_name of the lists (the notification title)
ListNames == [L1 |-> "Groceries", L2 |-> "Hardware"]

\* readings of the wall clock, datetime.now(timezone.utc), as <<hour, minute>>
Clock == {<<6, 59>>, <<7, 0>>, <<7, 1>>, <<12, 0>>, <<22, 0>>}

\* values of quiet_start and quiet_end a user can set, as <<hour, minute>>
QuietTimes == {<<7, 0>>, <<22, 0>>}

\* what the collaborators of a flush do: the preference lookup and the
\* delivery gateway return or raise, and the wall clock reads clock
Envs == [lookup : {"ok", "raises"}, send : {"ok", "raises"}, clock : Clock]

\* a flush whose collaborators return, at noon
CalmEnv == [lookup |-> "ok", send |-> "ok", clock |-> <<12, 0>>]

---------------------------------------------------------------------------
(* EventBroadcaster *)

ListEvent(id, list_id) == [id |-> id, list_id |-> list_id]

\* len(self._subscribers.get(list_id, set()))
get_subscriber_count(list_id) ==
    IF list_id \in DOMAIN subscribers THEN Cardinality(subscribers[list_id]) ELSE 0

\* mutant: the snapshot takes the mailboxes of every list
SnapshotAllLists(list_id) ==
    UNION {subscribers[l] : l \in DOMAIN subscribers}

\* self._subscribers.get(list_id, set()).copy()
Snapshot(list_id) ==
    IF list_id \in DOMAIN subscribers THEN subscribers[list_id] ELSE {}

\* mutant: the event is put at the head of the mailbox
PutNowaitFront(q, event) ==
    IF Len(q) < SUBSCRIBER_QUEUE_SIZE THEN <<event>> \o q ELSE q

\* try: queue.put_nowait(event)  except asyncio.QueueFull: dropped_count += 1
PutNowait(q, event) ==
    IF Len(q) < SUBSCRIBER_QUEUE_SIZE THEN Append(q, event) ELSE q

\* mutant: QueueFull is not caught, so the loop ends at the first full mailbox
\* (taken here as the first of the iteration)
DeliverAbortOnFull(snapshot, event) ==
    IF \E s \in snapshot : Len(mailbox[s]) >= SUBSCRIBER_QUEUE_SIZE
    THEN mailbox
    ELSE [s \in Subs |-> IF s \in snapshot THEN Append(mailbox[s], event)
                         ELSE mailbox[s]]

\* for queue in subscribers: ... ; the mailboxes after the loop
Deliver(snapshot, event) ==
    [s \in Subs |-> IF s \in snapshot THEN PutNowait(mailbox[s], event)
                    ELSE mailbox[s]]

\* subscribe(), lines 88-91: the registry with the queue of slot s added
Register(s, list_id) ==
    IF list_id \in DOMAIN subscribers
    THEN [subscribers EXCEPT ![list_id] = @ \cup {s}]
    ELSE [l \in DOMAIN subscribers \cup {list_id} |->
            IF l = list_id THEN {s} ELSE subscribers[l]]

\* mutant: the cleanup forgets to discard the queue
DiscardNothing(s, list_id) ==
    subscribers

\* subscribe() finally, lines 113-117: the registry with the queue discarded
Discard(s, list_id) ==
    IF list_id \in DOMAIN subscribers
    THEN IF subscribers[list_id] \ {s} = {}
         THEN [l \in DOMAIN subscribers \ {list_id} |-> subscribers[l]]
         ELSE [subscribers EXCEPT ![list_id] = @ \ {s}]
    ELSE subscribers

\* subscribe() finally, lines 116-121: the lock map after the cleanup
LocksAfterDiscard(s, list_id) ==
    IF list_id \in DOMAIN subscribers /\ subscribers[list_id] \ {s} = {}
    THEN locks \ {list_id}
    ELSE locks

\* subscribe(list_id) up to its first queue.get(): new queue, lock, registration
Subscribe(s, list_id) ==
    /\ pc[s] = "idle"
    /\ locks' = locks \cup {list_id}
    /\ subscribers' = Register(s, list_id)
    /\ pc' = [pc EXCEPT ![s] = "waiting"]
    /\ subList' = [subList EXCEPT ![s] = list_id]
    /\ mailbox' = [mailbox EXCEPT ![s] = <<>>]
    /\ connected' = [connected EXCEPT ![s] = TRUE]
    /\ received' = [received EXCEPT ![s] = <<>>]
    /\ sse' = [sse EXCEPT ![s] = <<>>]
    /\ timeouts' = [timeouts EXCEPT ![s] = 0]
    /\ UNCHANGED <<published, request>>
    /\ UNCHANGED <<qvars, hvars, lvars>>

\* queue.get() returns an event, which the generator yields.  A timeout of
\* wait_for changes nothing (the loop continues), and nothing in the source
\* puts the None sentinel, so neither is a step of the model.
Receive(s) ==
    /\ pc[s] = "waiting"
    /\ mailbox[s] # <<>>
    /\ received' = [received EXCEPT ![s] = Append(@, Head(mailbox[s]))]
    /\ mailbox' = [mailbox EXCEPT ![s] = Tail(@)]
    /\ timeouts' = [timeouts EXCEPT ![s] = 0]
    /\ UNCHANGED <<subscribers, locks, pc, subList, connected, published, request>>
    /\ UNCHANGED <<qvars, sse, hvars, lvars>>

\* the SSE client goes away; the generator is still registered
ClientDisconnect(s) ==
    /\ pc[s] = "waiting"
    /\ connected[s]
    /\ connected' = [connected EXCEPT ![s] = FALSE]
    /\ UNCHANGED <<subscribers, locks, pc, subList, mailbox, received, published,
                   timeouts, request>>
    /\ UNCHANGED <<qvars, sse, hvars, lvars>>

\* the consuming loop ends (break, exception, cancellation): the finally block
Unsubscribe(s) ==
    /\ pc[s] = "waiting"
    /\ subscribers' = Discard(s, subList[s])
    /\ locks' = LocksAfterDiscard(s, subList[s])
    /\ pc' = [pc EXCEPT ![s] = "idle"]
    /\ subList' = [subList EXCEPT ![s] = None]
    /\ mailbox' = [mailbox EXCEPT ![s] = <<>>]
    /\ connected' = [connected EXCEPT ![s] = FALSE]
    /\ timeouts' = [timeouts EXCEPT ![s] = 0]
    /\ UNCHANGED <<received, published, request>>
    /\ UNCHANGED <<qvars, sse, hvars, lvars>>

\* publish(event)
Publish(list_id) ==
    /\ published < MaxPublish
    /\ published' = published + 1
    /\ locks' = locks \cup {list_id}
    /\ mailbox' = Deliver(Snapshot(list_id), ListEvent(published + 1, list_id))
    /\ UNCHANGED <<subscribers, pc, subList, connected, received, timeouts, request>>
    /\ UNCHANGED <<qvars, sse, hvars, lvars>>

InitB ==
    /\ subscribers = << >>
    /\ locks = {}
    /\ pc = [s \in Subs |-> "idle"]
    /\ subList = [s \in Subs |-> None]
    /\ mailbox = [s \in Subs |-> <<>>]
    /\ connected = [s \in Subs |-> FALSE]
    /\ received = [s \in Subs |-> <<>>]
    /\ published = 0
    /\ timeouts = [s \in Subs |-> 0]
    /\ request = [recipient_user_ids |-> <<>>, publish |-> None,
                  enqueue |-> None, raised |-> None]

InitQ ==
    /\ now = 0
    /\ batches = << >>
    /\ tasks = {}
    /\ nextId = 1
    /\ lastCall = [list_id |-> None, actor_user_id |-> None,
                   recipient_user_ids |-> <<>>]
    /\ flushed = << >>
    /\ delivered = << >>
    /\ prefs = << >>

\* no SSE frame has been sent
InitS == sse = [s \in Subs |-> <<>>]

\* one list, owned by u1 and not shared; no request has been handled
InitH ==
    /\ db = [l \in HandlerLists |-> ListRow({"u1"}, <<>>)]
    /\ background_tasks = <<>>
    /\ handled = <<>>
    /\ calls = <<>>

\* EventBroadcaster.__init__, and no task has called it
InitL ==
    /\ list_locks = << >>
    /\ held = << >>
    /\ registry = << >>
    /\ lpc = [t \in LockTasks |-> "idle"]
    /\ lock = [t \in LockTasks |-> None]
    /\ running = None
    /\ lockCount = 0
    /\ lockOps = 0

Init == InitB /\ InitQ /\ InitS /\ InitH /\ InitL

NextB ==
    \/ \E s \in Subs, l \in Lists : Subscribe(s, l)
    \/ \E s \in Subs : Receive(s)
    \/ \E s \in Subs : ClientDisconnect(s)
    \/ \E s \in Subs : Unsubscribe(s)
    \/ \E l \in Lists : Publish(l)

SpecBroadcaster == Init /\ [][NextB]_vars

---------------------------------------------------------------------------
(* The SSE session: event_generator of api/stream.py over subscribe() *)

\* wait_for(queue.get(), timeout=QUEUE_GET_TIMEOUT) times out: subscribe()
\* catches TimeoutError and continues its loop without yielding, so
\* event_generator does not run and request.is_disconnected() is not called
QueueGetTimeout(s) ==
    /\ pc[s] = "waiting"
    /\ mailbox[s] = <<>>
    /\ timeouts[s] < MaxTimeouts
    /\ timeouts' = [timeouts EXCEPT ![s] = @ + 1]
    /\ UNCHANGED <<subscribers, locks, pc, subList, mailbox, connected, received,
                   published, request>>
    /\ UNCHANGED <<qvars, sse, hvars, lvars>>

\* what json.dumps in ListEvent.to_sse_data raises for an event, None when
\* it returns the text
SerializeErrors == {None, "TypeError", "ValueError"}

\* mutant: the inner try of event_generator has no except clause of its own
CaughtNothing(exc) == FALSE

\* stream.py:147, except (TypeError, ValueError): log and continue
Caught(exc) == exc \in {"TypeError", "ValueError"}

\* what event_generator does with an event whose to_sse_data raises exc:
\* the frame is yielded, the event is skipped, or the outer handler
\* (lines 155-165) yields an error frame and raises
Outcome(exc) ==
    IF exc = None THEN "frame" ELSE IF Caught(exc) THEN "skipped" ELSE "error"

\* subscribe() yields an event to event_generator, which first asks
\* request.is_disconnected(): if so it breaks, the subscribe() generator is
\* closed and its finally block runs; otherwise the event is converted and
\* the SSE frame is yielded.  exc is what the conversion raises.
StreamReceive(s, exc) ==
    /\ pc[s] = "waiting"
    /\ mailbox[s] # <<>>
    /\ IF connected[s]
       THEN /\ received' = [received EXCEPT ![s] = Append(@, Head(mailbox[s]))]
            /\ sse' = [sse EXCEPT ![s] = Append(@, [id  |-> Head(mailbox[s]).id,
                                                    out |-> Outcome(exc)])]
       ELSE UNCHANGED <<received, sse>>
    /\ IF connected[s] /\ Outcome(exc) # "error"
       THEN /\ mailbox' = [mailbox EXCEPT ![s] = Tail(@)]
            /\ UNCHANGED <<subscribers, locks, pc, subList>>
       ELSE /\ subscribers' = Discard(s, subList[s])
            /\ locks' = LocksAfterDiscard(s, subList[s])
            /\ pc' = [pc EXCEPT ![s] = "idle"]
            /\ subList' = [subList EXCEPT ![s] = None]
            /\ mailbox' = [mailbox EXCEPT ![s] = <<>>]
    /\ timeouts' = [timeouts EXCEPT ![s] = 0]
    /\ UNCHANGED <<connected, published, request>>
    /\ UNCHANGED <<qvars, hvars, lvars>>

NextStream ==
    \/ \E s \in StreamSubs, l \in StreamLists : Subscribe(s, l)
    \/ \E s \in StreamSubs, exc \in SerializeErrors : StreamReceive(s, exc)
    \/ \E s \in StreamSubs : QueueGetTimeout(s)
    \/ \E s \in StreamSubs : ClientDisconnect(s)
    \/ \E l \in StreamLists : Publish(l)

SpecStream == Init /\ [][NextStream]_vars

---------------------------------------------------------------------------
(* NotificationQueue *)

Keys == Users \X QLists

\* _batch_key(user_id, list_id)
batch_key(user_id, list_id) == <<user_id, list_id>>

\* PendingEvent; id is the identity of the object
PendingEvent(id, event_type, item_name, actor_user_id, actor_name) ==
    [id |-> id, event_type |-> event_type, item_name |-> item_name,
     actor_user_id |-> actor_user_id, actor_name |-> actor_name]

Range(q) == {q[i] : i \in 1..Len(q)}

Min(a, b) == IF a < b THEN a ELSE b

\* mutant: the actor is not skipped
IsNotifiedAlways(user_id, actor_user_id) == TRUE

\* queue_event, lines 100-101: the actor is skipped
IsNotified(user_id, actor_user_id) == user_id # actor_user_id

\* mutant: the new timer runs for the whole remaining budget
ExtensionToBudget(remaining_budget) == remaining_budget

\* mutant: the extension is not capped by the remaining budget
ExtensionUncapped(remaining_budget) == EXTEND_DELAY

\* extension = min(EXTEND_DELAY, remaining_budget)
Extension(remaining_budget) == Min(EXTEND_DELAY, remaining_budget)

\* mutant: the old timer is not cancelled
CancelNothing(ts, user_id, list_id, task_id) == ts

\* if batch.timer_task: batch.timer_task.cancel()
\* a cancelled timer ends in its CancelledError handler and does nothing more
Cancel(ts, user_id, list_id, task_id) ==
    {x \in ts : ~(/\ x.kind = "timer" /\ x.id = task_id
                  /\ x.user_id = user_id /\ x.list_id = list_id)}

\* mutant: the coroutine is made and never given to the loop
TimerTaskNotStarted(id, user_id, list_id, delay) ==
    [id |-> id, kind |-> "not_started", user_id |-> user_id, list_id |-> list_id,
     wake |-> now + delay]

\* asyncio.create_task(self._flush_after_delay(user_id, list_id, delay))
TimerTask(id, user_id, list_id, delay) ==
    [id |-> id, kind |-> "timer", user_id |-> user_id, list_id |-> list_id,
     wake |-> now + delay]

\* asyncio.create_task(self._flush_batch(user_id, list_id))
FlushTask(id, user_id, list_id) ==
    [id |-> id, kind |-> "flush", user_id |-> user_id, list_id |-> list_id,
     wake |-> now]

---------------------------------------------------------------------------
(* push_service.is_quiet_hours *)

\* A str is modelled as the sequence of its character codes: "0" is 48 and
\* ":" is 58.
Digit(d) == 48 + d

\* now.strftime("%H:%M"), and the "HH:MM" text of a configured time
strftime(hm) ==
    <<Digit(hm[1] \div 10), Digit(hm[1] % 10), 58,
      Digit(hm[2] \div 10), Digit(hm[2] % 10)>>

\* a < b on str: the first differing character decides, a proper prefix is less
RECURSIVE StrLess(_, _)
StrLess(a, b) ==
    IF b = <<>> THEN FALSE
    ELSE IF a = <<>> THEN TRUE
    ELSE IF Head(a) # Head(b) THEN Head(a) < Head(b)
    ELSE StrLess(Tail(a), Tail(b))

\* a <= b on str
StrLeq(a, b) == a = b \/ StrLess(a, b)

\* the row of user_id, as a set of at most one element (.first())
get_notification_preferences(user_id) ==
    IF user_id \in DOMAIN prefs THEN {prefs[user_id]} ELSE {}

\* lines 143-148: the comparison of the three texts
InWindow(start, end, current_time) ==
    IF StrLeq(start, end)
    THEN StrLeq(start, current_time) /\ StrLeq(current_time, end)
    ELSE StrLeq(start, current_time) \/ StrLeq(current_time, end)

\* is_quiet_hours(prefs) when the wall clock reads clock; p is the result of
\* the lookup, an unset quiet_start or quiet_end is the empty text
is_quiet_hours(p, clock) ==
    IF p = {} THEN FALSE
    ELSE LET row == CHOOSE r \in p : TRUE IN
         IF row.quiet_start = <<>> \/ row.quiet_end = <<>> THEN FALSE
         ELSE InWindow(row.quiet_start, row.quiet_end, strftime(clock))

---------------------------------------------------------------------------
(* NotificationQueue: enqueue *)

\* mutant: started_at is a default evaluated once, when the class is defined
NewBatchStartedAtImport(list_id, list_name, event) ==
    [list_id |-> list_id, list_name |-> list_name, events |-> <<event>>,
     timer_task |-> event.id, started_at |-> 0]

\* lines 117-125: BatchState(list_id, list_name, events=[event]) with the
\* timer task made for it; started_at is the time of the construction
NewBatch(list_id, list_name, event) ==
    [list_id |-> list_id, list_name |-> list_name, events |-> <<event>>,
     timer_task |-> event.id, started_at |-> now]

\* _add_to_batch; st holds the batch map and the tasks
add_to_batch(st, user_id, list_id, list_name, event) ==
    LET key == batch_key(user_id, list_id) IN
    IF key \notin DOMAIN st.batches
    THEN [batches |-> [k \in DOMAIN st.batches \cup {key} |->
                         IF k = key
                         THEN NewBatch(list_id, list_name, event)
                         ELSE st.batches[k]],
          tasks   |-> st.tasks \cup
                        {TimerTask(event.id, user_id, list_id, INITIAL_DELAY)}]
    ELSE
      LET batch  == st.batches[key]
          events == Append(batch.events, event)
      IN
      IF Len(events) >= MAX_EVENTS
      THEN [batches |-> [st.batches EXCEPT ![key].events = events],
            tasks   |-> Cancel(st.tasks, user_id, list_id, batch.timer_task) \cup
                          {FlushTask(event.id, user_id, list_id)}]
      ELSE
        LET elapsed          == now - batch.started_at
            remaining_budget == MAX_DELAY - elapsed
        IN
        IF remaining_budget > 0
        THEN [batches |-> [st.batches EXCEPT ![key].events = events,
                                             ![key].timer_task = event.id],
              tasks   |-> Cancel(st.tasks, user_id, list_id, batch.timer_task) \cup
                            {TimerTask(event.id, user_id, list_id,
                                       Extension(remaining_budget))}]
        ELSE [batches |-> [st.batches EXCEPT ![key].events = events],
              tasks   |-> st.tasks]

\* queue_event, lines 97-103: the loop over recipient_user_ids
RECURSIVE add_all(_, _, _, _, _, _)
add_all(st, recipient_user_ids, list_id, list_name, actor_user_id, event) ==
    IF recipient_user_ids = <<>> THEN st
    ELSE LET user_id == Head(recipient_user_ids)
             st2 == IF IsNotified(user_id, actor_user_id)
                    THEN add_to_batch(st, user_id, list_id, list_name, event)
                    ELSE st
         IN add_all(st2, Tail(recipient_user_ids), list_id, list_name,
                    actor_user_id, event)

\* queue_event(list_id, list_name, event_type, item_name, actor_user_id,
\*             actor_name, recipient_user_ids)
QueueEvent(list_id, list_name, event_type, item_name, actor_user_id, actor_name, recipient_user_ids) ==
    /\ LET st == add_all([batches |-> batches, tasks |-> tasks],
                         recipient_user_ids, list_id, list_name, actor_user_id,
                         PendingEvent(nextId, event_type, item_name,
                                      actor_user_id, actor_name))
       IN /\ batches' = st.batches
          /\ tasks' = st.tasks
    /\ nextId' = nextId + 1
    /\ lastCall' = [list_id |-> list_id, actor_user_id |-> actor_user_id,
                    recipient_user_ids |-> recipient_user_ids]
    /\ UNCHANGED <<now, flushed, delivered, prefs>>
    /\ UNCHANGED <<bvars, sse, hvars, lvars>>

---------------------------------------------------------------------------
(* NotificationQueue._format_notification *)

\* sep.join(parts)
RECURSIVE Join(_, _)
Join(sep, parts) ==
    IF parts = <<>> THEN ""
    ELSE IF Len(parts) = 1 THEN parts[1]
    ELSE parts[1] \o sep \o Join(sep, Tail(parts))

\* lines 235-244: the bucket an event_type goes to; None for any other type
ActionClass(event_type) ==
    CASE event_type = "item_created" -> "added"
      [] event_type = "item_checked" -> "checked"
      [] event_type = "item_unchecked" -> "unchecked"
      [] event_type = "item_deleted" -> "deleted"
      [] event_type \in {"item_updated", "items_cleared", "items_restored"} -> "updated"
      [] OTHER -> None

\* item = event.item_name or "item"; a missing name is the empty text
ItemOf(event) == IF event.item_name = "" THEN "item" ELSE event.item_name

\* the keys of by_actor, in the order of their first event
RECURSIVE actor_order(_, _)
actor_order(events, seen) ==
    IF events = <<>> THEN seen
    ELSE actor_order(Tail(events),
                     IF Head(events).actor_name \in Range(seen) THEN seen
                     ELSE Append(seen, Head(events).actor_name))

\* by_actor[actor][class]: the items of the actor's events of that class, in order
Bucket(events, actor, class) ==
    LET mine == SelectSeq(events, LAMBDA e : /\ e.actor_name = actor
                                             /\ ActionClass(e.event_type) = class)
    IN [i \in 1..Len(mine) |-> ItemOf(mine[i])]

\* "s" if count > 1 else ""
Plural(count) == IF count > 1 THEN "s" ELSE ""

\* mutant: two or three added items are counted, not named
AddedCounted(items) ==
    IF items = <<>> THEN <<>>
    ELSE IF Len(items) = 1 THEN <<"added " \o items[1]>>
    ELSE <<"added " \o ToString(Len(items)) \o " items">>

\* lines 251-258
Added(items) ==
    IF items = <<>> THEN <<>>
    ELSE IF Len(items) = 1 THEN <<"added " \o items[1]>>
    ELSE IF Len(items) <= 3 THEN <<"added " \o Join(", ", items)>>
    ELSE <<"added " \o ToString(Len(items)) \o " items">>

\* lines 260-265
Checked(items) ==
    IF items = <<>> THEN <<>>
    ELSE IF Len(items) = 1 THEN <<"checked off " \o items[1]>>
    ELSE <<"checked off " \o ToString(Len(items)) \o " items">>

\* lines 267-269
Unchecked(items) ==
    IF items = <<>> THEN <<>>
    ELSE <<"unchecked " \o ToString(Len(items)) \o " item" \o Plural(Len(items))>>

\* lines 271-273
Removed(items) ==
    IF items = <<>> THEN <<>>
    ELSE <<"removed " \o ToString(Len(items)) \o " item" \o Plural(Len(items))>>

\* lines 249-273: action_parts of one actor; the "updated" bucket is filled
\* (line 244) and not read here
action_parts(events, actor) ==
    Added(Bucket(events, actor, "added")) \o
    Checked(Bucket(events, actor, "checked")) \o
    Unchecked(Bucket(events, actor, "unchecked")) \o
    Removed(Bucket(events, actor, "deleted"))

\* lines 247-276: parts, one per actor that has action_parts
RECURSIVE message_parts(_, _)
message_parts(events, actors) ==
    IF actors = <<>> THEN <<>>
    ELSE LET ap == action_parts(events, Head(actors)) IN
         (IF ap = <<>> THEN <<>>
          ELSE <<Head(actors) \o " " \o Join(" and ", ap)>>)
         \o message_parts(events, Tail(actors))

\* _format_notification(batch): (title, body)
format_notification(batch) ==
    LET parts == message_parts(batch.events, actor_order(batch.events, <<>>)) IN
    [title |-> batch.list_name,
     body  |-> IF parts = <<>> THEN "List updated" ELSE Join("; ", parts)]

---------------------------------------------------------------------------
(* NotificationQueue: flush *)

\* no call of send_push_notification
NoCall == [user_id |-> "", title |-> "", body |-> "", data |-> "", tag |-> ""]

\* mutant: the handler of line 205 logs and raises again
Reraise(exc) == exc

\* lines 205-210, except Exception: logged, nothing raised
Handled(exc) == None

\* line 187: prefs and prefs.list_updates == "off"
IsOff(p) == \E row \in p : row.list_updates = "off"

\* lines 173-210: what _flush_batch does with a popped batch that has events.
\* seen is the row the lookup returned and clock the reading of the wall
\* clock, calls counts the calls of send_push_notification, sent holds the
\* arguments of the call, error the exception that leaves _flush_batch.
deliver(batch, user_id, list_id, env) ==
    LET msg  == format_notification(batch)
        p    == get_notification_preferences(user_id)
        call == [user_id |-> user_id, title |-> msg.title, body |-> msg.body,
                 data |-> list_id, tag |-> "list-" \o list_id]
        skip == [title |-> msg.title, body |-> msg.body, seen |-> p,
                 clock |-> env.clock, calls |-> 0, sent |-> NoCall,
                 outcome |-> "", error |-> None]
    IN
    IF env.lookup = "raises"
    THEN [skip EXCEPT !.seen = {}, !.outcome = "lookup_failed",
                      !.error = Handled("lookup")]
    ELSE IF IsOff(p)
    THEN [skip EXCEPT !.outcome = "off"]
    ELSE IF is_quiet_hours(p, env.clock)
    THEN [skip EXCEPT !.outcome = "quiet"]
    ELSE IF env.send = "raises"
    THEN [skip EXCEPT !.calls = 1, !.sent = call, !.outcome = "send_failed",
                      !.error = Handled("send")]
    ELSE [skip EXCEPT !.calls = 1, !.sent = call, !.outcome = "sent"]

\* mutant: the batch is read and left in the map
PopNothing(key) == batches

\* _flush_batch, lines 165-171: batch = self._batches.pop(key, None)
PopBatch(key) == [k \in DOMAIN batches \ {key} |-> batches[k]]

\* _flush_batch, lines 170-210: the popped batch, if it has events, goes to
\* format and send; otherwise the flush returns at once
FlushedAfter(task, env) ==
    LET key == batch_key(task.user_id, task.list_id) IN
    IF key \in DOMAIN batches /\ batches[key].events # <<>>
    THEN LET d == deliver(batches[key], task.user_id, task.list_id, env) IN
         [k \in DOMAIN flushed \cup {key} |->
            IF k = key
            THEN [events |-> batches[key].events,
                  started_at |-> batches[key].started_at,
                  at |-> now, by |-> task.kind,
                  title |-> d.title, body |-> d.body, seen |-> d.seen,
                  clock |-> d.clock, calls |-> d.calls, sent |-> d.sent,
                  outcome |-> d.outcome, error |-> d.error]
            ELSE flushed[k]]
    ELSE flushed

\* the events handed to format and send, added to those of the earlier flushes
DeliveredAfter(task) ==
    LET key == batch_key(task.user_id, task.list_id) IN
    IF key \in DOMAIN batches /\ batches[key].events # <<>>
    THEN LET ids == [i \in 1..Len(batches[key].events) |-> batches[key].events[i].id]
         IN [k \in DOMAIN delivered \cup {key} |->
               IF k = key
               THEN (IF key \in DOMAIN delivered THEN delivered[key] ELSE <<>>) \o ids
               ELSE delivered[k]]
    ELSE delivered

\* _flush_after_delay: the sleep is over and the timer task flushes
TimerFires(task, env) ==
    /\ task \in tasks
    /\ task.kind = "timer"
    /\ task.wake <= now
    /\ batches' = PopBatch(batch_key(task.user_id, task.list_id))
    /\ flushed' = FlushedAfter(task, env)
    /\ delivered' = DeliveredAfter(task)
    /\ tasks' = tasks \ {task}
    /\ UNCHANGED <<now, nextId, lastCall, prefs>>
    /\ UNCHANGED <<bvars, sse, hvars, lvars>>

\* the task made by a forced flush runs _flush_batch
ForcedFlushRuns(task, env) ==
    /\ task \in tasks
    /\ task.kind = "flush"
    /\ batches' = PopBatch(batch_key(task.user_id, task.list_id))
    /\ flushed' = FlushedAfter(task, env)
    /\ delivered' = DeliveredAfter(task)
    /\ tasks' = tasks \ {task}
    /\ UNCHANGED <<now, nextId, lastCall, prefs>>
    /\ UNCHANGED <<bvars, sse, hvars, lvars>>

\* time passes; the event loop runs every task that is due before it sleeps again
Tick(limit) ==
    /\ now < limit
    /\ \A task \in tasks : task.wake > now
    /\ now' = now + 1
    /\ UNCHANGED <<batches, tasks, nextId, lastCall, flushed, delivered, prefs>>
    /\ UNCHANGED <<bvars, sse, hvars, lvars>>

\* actor_name = event.user_name or "Someone" (api/items.py:123)
ActorNames == [u1 |-> "Amy", u2 |-> "Bob"]

actor_name(actor_user_id) ==
    IF actor_user_id = "" THEN "Someone" ELSE ActorNames[actor_user_id]

\* every actor and every recipient list, a few calls; the events are
\* item_checked of Milk and the collaborators of a flush return
NextQ ==
    \/ \E l \in QLists, a \in Actors, r \in RecipientLists :
          /\ nextId <= MaxEnq
          /\ QueueEvent(l, ListNames[l], "item_checked", "Milk", a, actor_name(a), r)
    \/ \E task \in tasks : TimerFires(task, CalmEnv)
    \/ \E task \in tasks : ForcedFlushRuns(task, CalmEnv)
    \/ Tick(MaxQueueTime)

SpecQueue == Init /\ [][NextQ]_vars

\* a burst of calls by one actor on one list shared with one other user:
\* one batch key, followed for more calls
NextBurst ==
    \/ /\ nextId <= MaxBurst
       /\ QueueEvent("L1", "Groceries", "item_checked", "Milk", "u1", "Amy",
                     <<"u1", "u2">>)
    \/ \E task \in tasks : TimerFires(task, CalmEnv)
    \/ \E task \in tasks : ForcedFlushRuns(task, CalmEnv)
    \/ Tick(MaxTime)

SpecBurst == Init /\ [][NextBurst]_vars

\* calls explored under fair scheduling
MaxLive == 5

\* the burst of SpecBurst with the clock and the tasks of the loop run
\* fairly: time passes, a timer whose sleep is over is resumed by the event
\* loop, and a task made by create_task is run by the event loop.  Calls are
\* made while a timer started now can still fire within the explored time.
NextLive ==
    \/ /\ nextId <= MaxLive
       /\ now + INITIAL_DELAY <= MaxTime
       /\ QueueEvent("L1", "Groceries", "item_checked", "Milk", "u1", "Amy",
                     <<"u1", "u2">>)
    \/ \E task \in tasks : TimerFires(task, CalmEnv)
    \/ \E task \in tasks : ForcedFlushRuns(task, CalmEnv)
    \/ Tick(MaxTime)

SpecLive ==
    /\ Init /\ [][NextLive]_vars
    /\ WF_vars(Tick(MaxTime))
    /\ WF_vars(\E task \in tasks : TimerFires(task, CalmEnv))
    /\ WF_vars(\E task \in tasks : ForcedFlushRuns(task, CalmEnv))

---------------------------------------------------------------------------
(* Flushes with preferences, quiet hours and failing collaborators *)

\* an optional argument: None is the empty set
Opt(S) == {{}} \cup {{x} : x \in S}

\* NotificationPreferences(user_id=user_id): the defaults of models.py:248-256
DefaultPreferences == [list_updates |-> "batched", quiet_start |-> <<>>, quiet_end |-> <<>>]

\* update_notification_preferences: the row of user_id after the call
UpdatedRow(user_id, list_updates, quiet_start, quiet_end) ==
    LET row == IF user_id \in DOMAIN prefs THEN prefs[user_id] ELSE DefaultPreferences
    IN [list_updates |-> IF list_updates = {} THEN row.list_updates
                         ELSE CHOOSE x \in list_updates : TRUE,
        quiet_start  |-> IF quiet_start = {} THEN row.quiet_start
                         ELSE strftime(CHOOSE x \in quiet_start : TRUE),
        quiet_end    |-> IF quiet_end = {} THEN row.quiet_end
                         ELSE strftime(CHOOSE x \in quiet_end : TRUE)]

\* update_notification_preferences(db, user_id, list_updates, ..., quiet_start, quiet_end)
UpdatePreferences(user_id, list_updates, quiet_start, quiet_end) ==
    /\ prefs' = [u \in DOMAIN prefs \cup {user_id} |->
                   IF u = user_id
                   THEN UpdatedRow(user_id, list_updates, quiet_start, quiet_end)
                   ELSE prefs[u]]
    /\ UNCHANGED <<now, batches, tasks, nextId, lastCall, flushed, delivered>>
    /\ UNCHANGED <<bvars, sse, hvars, lvars>>

\* one batch key, whose recipient changes preferences; every flush meets
\* every behaviour of its collaborators
NextFlush ==
    \/ /\ nextId <= MaxFlushEnq
       /\ QueueEvent("L1", "Groceries", "item_checked", "Milk", "u1", "Amy",
                     <<"u1", "u2">>)
    \/ \E task \in tasks, env \in Envs : TimerFires(task, env)
    \/ Tick(MaxQueueTime)
    \/ \E lu \in Opt({"batched", "off"}), qs \in Opt(QuietTimes),
          qe \in Opt(QuietTimes) : UpdatePreferences("u2", lu, qs, qe)

SpecFlush == Init /\ [][NextFlush]_vars

\* the events of the formatting runs: event_type, item_name, actor_user_id;
\* an event without item has the empty item_name
FormatEvents ==
    {<<"item_created", "Eggs", "u1">>, <<"item_created", "Bread", "u1">>,
     <<"item_created", "Juice", "u1">>, <<"item_checked", "Milk", "">>,
     <<"item_unchecked", "Milk", "u1">>, <<"item_deleted", "Milk", "">>,
     <<"items_cleared", "", "u1">>}

\* one batch key that receives events of every kind from two actors
NextFormat ==
    \/ \E ev \in FormatEvents :
          /\ nextId <= MaxFormatEnq
          /\ QueueEvent("L1", "Groceries", ev[1], ev[2], ev[3], actor_name(ev[3]),
                        <<"u2">>)
    \/ \E task \in tasks : TimerFires(task, CalmEnv)
    \/ \E task \in tasks : ForcedFlushRuns(task, CalmEnv)
    \/ Tick(MaxQueueTime)

SpecFormat == Init /\ [][NextFormat]_vars

---------------------------------------------------------------------------
(* publish_event_async of api/items.py: the request path *)

\* what a collaborator of publish_event_async does: it returns, it raises
\* before it has changed anything, or it raises after its work is done
Behaviours == {"ok", "raises_before", "raises_after"}

\* the exception a call with behaviour b raises, None when it returns
Raises(b) == IF b = "ok" THEN None ELSE "Exception"

\* lines 100-112 and 126-130: every except clause logs and raises nothing
Logged(exc) == None

\* mutant: publish is awaited outside a try, so its exception ends the function
RunsEnqueueIfPublished(publish_exc, recipient_user_ids) ==
    publish_exc = None /\ recipient_user_ids # <<>>

\* line 115, reached whatever publish did: if recipient_user_ids
RunsEnqueue(publish_exc, recipient_user_ids) == recipient_user_ids # <<>>

\* publish_event_async(event, list_name, recipient_user_ids), where publish
\* and queue_event behave as pub and enq say
publish_event_async(list_id, actor_user_id, recipient_user_ids, pub, enq) ==
    LET runs == RunsEnqueue(Raises(pub), recipient_user_ids)
        st   == add_all([batches |-> batches, tasks |-> tasks],
                        recipient_user_ids, list_id, ListNames[list_id],
                        actor_user_id,
                        PendingEvent(nextId, "item_checked", "Milk",
                                     actor_user_id, actor_name(actor_user_id)))
    IN
    /\ published < MaxRequests
    /\ published' = published + 1
    /\ IF pub = "raises_before"
       THEN UNCHANGED <<locks, mailbox>>
       ELSE /\ locks' = locks \cup {list_id}
            /\ mailbox' = Deliver(Snapshot(list_id), ListEvent(published + 1, list_id))
    /\ IF runs /\ enq # "raises_before"
       THEN /\ batches' = st.batches
            /\ tasks' = st.tasks
            /\ nextId' = nextId + 1
            /\ lastCall' = [list_id |-> list_id, actor_user_id |-> actor_user_id,
                            recipient_user_ids |-> recipient_user_ids]
       ELSE UNCHANGED <<batches, tasks, nextId, lastCall>>
    /\ request' = [recipient_user_ids |-> recipient_user_ids,
                   publish |-> pub,
                   enqueue |-> IF runs THEN enq ELSE "not_called",
                   raised  |-> IF Raises(pub) # None THEN Logged(Raises(pub))
                               ELSE IF runs /\ Raises(enq) # None
                               THEN Logged(Raises(enq))
                               ELSE None]
    /\ UNCHANGED <<subscribers, pc, subList, connected, received, timeouts>>
    /\ UNCHANGED <<now, flushed, delivered, prefs>>
    /\ UNCHANGED <<sse, lvars>>

\* a request whose background task is publish_event_async
PublishEventAsync(list_id, actor_user_id, recipient_user_ids, pub, enq) ==
    /\ publish_event_async(list_id, actor_user_id, recipient_user_ids, pub, enq)
    /\ UNCHANGED hvars

\* requests of one actor on a list with SSE sessions and two recipients
NextRequest ==
    \/ \E s \in StreamSubs, l \in StreamLists : Subscribe(s, l)
    \/ \E s \in StreamSubs : Receive(s)
    \/ \E l \in StreamLists, r \in {<<>>, <<"u1", "u2">>}, pub \in Behaviours,
          enq \in Behaviours : PublishEventAsync(l, "u1", r, pub, enq)
    \/ \E task \in tasks : ForcedFlushRuns(task, CalmEnv)

SpecRequest == Init /\ [][NextRequest]_vars

---------------------------------------------------------------------------
(* The mutation handlers of api/items.py, api/lists.py and api/shares.py *)

\* committed mutations explored
MaxMutations == 2

\* handlers of api/items.py that change items: create_items adds one task
\* for each created item, delete_item reads the recipients before its change;
\* update_item, check_item, uncheck_item, clear_checked_items and
\* restore_checked_items take the steps of delete_item in the other order
ItemHandlers == {"create_items", "delete_item"}

\* the handlers of api/lists.py that change the row of an existing list
ListHandlers == {"update_list", "delete_list"}

\* current_user of a request: "" is a request with API key authentication
HandlerActors == {"", "u1", "u2"}

\* users a list can be shared with
ShareUsers == {"u2"}

\* check_list_access(db, list_id, current_user, require_edit=True)
check_list_access(list_id, current_user) ==
    \/ current_user = ""
    \/ current_user \in db[list_id].owner_id
    \/ current_user \in Range(db[list_id].shares)

\* lines 70-74: the loop over the share rows
RECURSIVE AddShares(_, _)
AddShares(recipient_ids, shares) ==
    IF shares = <<>> THEN recipient_ids
    ELSE AddShares(IF Head(shares) \in Range(recipient_ids)
                   THEN recipient_ids
                   ELSE Append(recipient_ids, Head(shares)),
                   Tail(shares))

\* mutant: the owner is not added
RecipientsOfShares(list_id) ==
    IF ~db[list_id].exists THEN <<>> ELSE AddShares(<<>>, db[list_id].shares)

\* get_notification_recipients(db, list_id)
get_notification_recipients(list_id) ==
    IF ~db[list_id].exists THEN <<>>
    ELSE AddShares(IF db[list_id].owner_id = {} THEN <<>>
                   ELSE <<CHOOSE u \in db[list_id].owner_id : TRUE>>,
                   db[list_id].shares)

\* background_tasks.add_task(publish_event_async, ListEvent(...), list_name,
\* recipient_ids), once for each of the items events of mutation m
AddTasks(m, list_id, current_user, items, recipient_ids) ==
    background_tasks \o
      [i \in 1..items |-> [mutation |-> m, list_id |-> list_id,
                           user_id |-> current_user,
                           recipient_ids |-> recipient_ids]]

\* a handler of api/items.py: 404 and 403 checks, the change is committed by
\* item_service, the recipients are read, and one task is added (create_items:
\* one task for each created item)
ItemHandler(handler, list_id, current_user, items) ==
    /\ db[list_id].exists
    /\ check_list_access(list_id, current_user)
    /\ items = 1 \/ handler = "create_items"
    /\ Len(handled) < MaxMutations
    /\ published + Len(background_tasks) + items <= MaxRequests
    /\ handled' = Append(handled, [handler |-> handler, list_id |-> list_id,
                                   items |-> items])
    /\ calls' = Append(calls, [publish |-> 0, enqueue |-> 0])
    /\ background_tasks' = AddTasks(Len(handled) + 1, list_id, current_user, items,
                                    get_notification_recipients(list_id))
    /\ UNCHANGED db
    /\ UNCHANGED <<bvars, qvars, sse, lvars>>

\* update_list and delete_list of api/lists.py: the change is committed by
\* list_service and nothing else is done; delete_list removes the row and,
\* with it, its shares
ListHandler(handler, list_id, current_user) ==
    /\ db[list_id].exists
    /\ check_list_access(list_id, current_user)
    /\ Len(handled) < MaxMutations
    /\ handled' = Append(handled, [handler |-> handler, list_id |-> list_id,
                                   items |-> 0])
    /\ calls' = Append(calls, [publish |-> 0, enqueue |-> 0])
    /\ db' = IF handler = "delete_list"
             THEN [db EXCEPT ![list_id] = [exists |-> FALSE, owner_id |-> {},
                                           shares |-> <<>>]]
             ELSE db
    /\ UNCHANGED background_tasks
    /\ UNCHANGED <<bvars, qvars, sse, lvars>>

\* share_list_by_email of api/shares.py, called by the owner for another
\* user who has no share yet
ShareList(list_id, user_id) ==
    /\ db[list_id].exists
    /\ db[list_id].owner_id # {}
    /\ user_id \notin db[list_id].owner_id
    /\ user_id \notin Range(db[list_id].shares)
    /\ db' = [db EXCEPT ![list_id].shares = Append(@, user_id)]
    /\ UNCHANGED <<background_tasks, handled, calls>>
    /\ UNCHANGED <<bvars, qvars, sse, lvars>>

\* revoke_share of api/shares.py, called by the owner
RevokeShare(list_id, user_id) ==
    /\ db[list_id].exists
    /\ db[list_id].owner_id # {}
    /\ user_id \in Range(db[list_id].shares)
    /\ db' = [db EXCEPT ![list_id].shares = SelectSeq(@, LAMBDA u : u # user_id)]
    /\ UNCHANGED <<background_tasks, handled, calls>>
    /\ UNCHANGED <<bvars, qvars, sse, lvars>>

\* the response has been sent and the next background task runs
RunBackgroundTask ==
    /\ background_tasks # <<>>
    /\ LET t == Head(background_tasks) IN
         /\ publish_event_async(t.list_id, t.user_id, t.recipient_ids, "ok", "ok")
         /\ calls' = [calls EXCEPT
                         ![t.mutation].publish = @ + 1,
                         ![t.mutation].enqueue =
                             IF request'.enqueue = "not_called" THEN @ ELSE @ + 1]
    /\ background_tasks' = Tail(background_tasks)
    /\ UNCHANGED <<db, handled>>

\* the list has an owner or was made by a request with an API key and no owner_id
InitHandlers ==
    /\ InitB /\ InitQ /\ InitS /\ InitL
    /\ db \in [HandlerLists -> {ListRow({}, <<>>), ListRow({"u1"}, <<>>)}]
    /\ background_tasks = <<>>
    /\ handled = <<>>
    /\ calls = <<>>

NextHandlers ==
    \/ \E h \in ItemHandlers, l \in HandlerLists, u \in HandlerActors, n \in 1..2 :
          ItemHandler(h, l, u, n)
    \/ \E h \in ListHandlers, l \in HandlerLists, u \in HandlerActors :
          ListHandler(h, l, u)
    \/ \E l \in HandlerLists, u \in ShareUsers : ShareList(l, u)
    \/ \E l \in HandlerLists, u \in ShareUsers : RevokeShare(l, u)
    \/ RunBackgroundTask

SpecHandlers == InitHandlers /\ [][NextHandlers]_vars

---------------------------------------------------------------------------
(* EventBroadcaster lock by lock: every await of subscribe() and publish() *)
(* is a step of its own.  The event loop runs one task at a time; the task  *)
(* keeps the loop until an await really suspends it.                        *)

\* subscribe() and publish() calls explored
MaxLockOps == 4

\* the list the tasks subscribe to and publish on
LockList == "L1"

\* self._global_lock; the locks of the lists are numbered from 1
global_lock == 0

\* the awaits at which a task acquires the lock in its variable lock
AcquireLabels == {"s_lock", "f_lock", "p_lock"}

\* the awaits of _get_list_lock, where a task acquires the global lock
GetLabels == {"s_get", "p_get"}

\* a task at one of these is inside async with lock, with the lock held
InsideLabels == {"s_in", "f_in", "f_global", "p_in"}

\* mutant: every await gives the loop to another task before it goes on
SuspendsAlways(locked) == TRUE

\* asyncio.Lock.acquire returns at once when the lock is not locked (and
\* awaiting a coroutine does not suspend by itself): the task is suspended
\* only when the lock is locked
Suspends(locked) == locked

\* mutant: leaving async with does not unlock
ReleaseNothing(h, l) == h

\* __aexit__ of async with: lock.release()
Release(h, l) == [x \in DOMAIN h \ {l} |-> h[x]]

\* lock.acquire() by task t went through
Acquire(h, l, t) == [x \in DOMAIN h \cup {l} |-> IF x = l THEN t ELSE h[x]]

\* the lock object in the local variable lock of task t
LockOf(t) == CHOOSE l \in lock[t] : TRUE

\* the loop may run a step of task t: t has the loop, or no task has it
MayRun(t) == running = None \/ running = t

\* a task calls subscribe(list_id) and reaches await self._get_list_lock
CallSubscribe(t) ==
    /\ lpc[t] = "idle"
    /\ running = None
    /\ lockOps < MaxLockOps
    /\ lockOps' = lockOps + 1
    /\ lpc' = [lpc EXCEPT ![t] = "s_get"]
    /\ running' = IF Suspends(global_lock \in DOMAIN held) THEN None ELSE t
    /\ UNCHANGED <<list_locks, held, registry, lock, lockCount>>
    /\ UNCHANGED <<bvars, qvars, sse, hvars>>

\* a task calls publish(event) and reaches await self._get_list_lock
CallPublish(t) ==
    /\ lpc[t] = "idle"
    /\ running = None
    /\ lockOps < MaxLockOps
    /\ lockOps' = lockOps + 1
    /\ lpc' = [lpc EXCEPT ![t] = "p_get"]
    /\ running' = IF Suspends(global_lock \in DOMAIN held) THEN None ELSE t
    /\ UNCHANGED <<list_locks, held, registry, lock, lockCount>>
    /\ UNCHANGED <<bvars, qvars, sse, hvars>>

\* _get_list_lock: the global lock is taken, the lock of the list is made
\* if the map has none, the global lock is released and the lock of the list
\* is returned; the caller reaches async with lock
GetListLock(t) ==
    /\ lpc[t] \in GetLabels
    /\ MayRun(t)
    /\ global_lock \notin DOMAIN held
    /\ list_locks' = IF LockList \in DOMAIN list_locks THEN list_locks
                     ELSE [l \in {LockList} |-> lockCount + 1]
    /\ lockCount' = IF LockList \in DOMAIN list_locks THEN lockCount
                    ELSE lockCount + 1
    /\ lock' = [lock EXCEPT ![t] = {list_locks'[LockList]}]
    /\ lpc' = [lpc EXCEPT ![t] = IF lpc[t] = "s_get" THEN "s_lock" ELSE "p_lock"]
    /\ running' = IF Suspends(list_locks'[LockList] \in DOMAIN held) THEN None ELSE t
    /\ UNCHANGED <<held, registry, lockOps>>
    /\ UNCHANGED <<bvars, qvars, sse, hvars>>

\* async with lock, __aenter__: the task takes the lock it has in lock
AcquireLock(t) ==
    /\ lpc[t] \in AcquireLabels
    /\ MayRun(t)
    /\ LockOf(t) \notin DOMAIN held
    /\ held' = Acquire(held, LockOf(t), t)
    /\ lpc' = [lpc EXCEPT ![t] = CASE lpc[t] = "s_lock" -> "s_in"
                                   [] lpc[t] = "f_lock" -> "f_in"
                                   [] lpc[t] = "p_lock" -> "p_in"]
    /\ running' = t
    /\ UNCHANGED <<list_locks, registry, lock, lockCount, lockOps>>
    /\ UNCHANGED <<bvars, qvars, sse, hvars>>

\* subscribe(), lines 89-101: the queue is added to the set of the list,
\* the lock is released and the task suspends in queue.get()
AddQueue(t) ==
    /\ lpc[t] = "s_in"
    /\ MayRun(t)
    /\ registry' = [l \in DOMAIN registry \cup {LockList} |->
                      IF l \in DOMAIN registry THEN registry[l] \cup {t} ELSE {t}]
    /\ held' = Release(held, LockOf(t))
    /\ lpc' = [lpc EXCEPT ![t] = "waiting"]
    /\ running' = None
    /\ UNCHANGED <<list_locks, lock, lockCount, lockOps>>
    /\ UNCHANGED <<bvars, qvars, sse, hvars>>

\* the generator is closed while it waits in queue.get(): its finally block
\* starts and reaches async with lock, with the lock taken at subscription
CloseGenerator(t) ==
    /\ lpc[t] = "waiting"
    /\ running = None
    /\ lpc' = [lpc EXCEPT ![t] = "f_lock"]
    /\ running' = IF Suspends(LockOf(t) \in DOMAIN held) THEN None ELSE t
    /\ UNCHANGED <<list_locks, held, registry, lock, lockCount, lockOps>>
    /\ UNCHANGED <<bvars, qvars, sse, hvars>>

\* finally, lines 113-119: the queue is discarded; if the set is empty it is
\* deleted and the task reaches async with self._global_lock with the lock of
\* the list held, otherwise the lock is released and subscribe() is over
DiscardQueue(t) ==
    /\ lpc[t] = "f_in"
    /\ MayRun(t)
    /\ LET last == LockList \in DOMAIN registry /\ registry[LockList] \ {t} = {} IN
       /\ registry' = IF LockList \notin DOMAIN registry THEN registry
                      ELSE IF last THEN << >>
                      ELSE [registry EXCEPT ![LockList] = @ \ {t}]
       /\ IF last
          THEN /\ lpc' = [lpc EXCEPT ![t] = "f_global"]
               /\ running' = IF Suspends(global_lock \in DOMAIN held) THEN None ELSE t
               /\ UNCHANGED <<held, lock>>
          ELSE /\ lpc' = [lpc EXCEPT ![t] = "idle"]
               /\ held' = Release(held, LockOf(t))
               /\ lock' = [lock EXCEPT ![t] = {}]
               /\ running' = None
    /\ UNCHANGED <<list_locks, lockCount, lockOps>>
    /\ UNCHANGED <<bvars, qvars, sse, hvars>>

\* finally, lines 119-125: under the global lock the entry of the list is
\* deleted if the list has no set of subscribers; both locks are released
DeleteLock(t) ==
    /\ lpc[t] = "f_global"
    /\ MayRun(t)
    /\ global_lock \notin DOMAIN held
    /\ list_locks' = IF LockList \in DOMAIN list_locks /\ LockList \notin DOMAIN registry
                     THEN << >> ELSE list_locks
    /\ held' = Release(held, LockOf(t))
    /\ lock' = [lock EXCEPT ![t] = {}]
    /\ lpc' = [lpc EXCEPT ![t] = "idle"]
    /\ running' = None
    /\ UNCHANGED <<registry, lockCount, lockOps>>
    /\ UNCHANGED <<bvars, qvars, sse, hvars>>

\* publish(), lines 136-160: the set of the list is copied, the lock is
\* released and the copy is served with put_nowait
CopySubscribers(t) ==
    /\ lpc[t] = "p_in"
    /\ MayRun(t)
    /\ held' = Release(held, LockOf(t))
    /\ lock' = [lock EXCEPT ![t] = {}]
    /\ lpc' = [lpc EXCEPT ![t] = "idle"]
    /\ running' = None
    /\ UNCHANGED <<list_locks, registry, lockCount, lockOps>>
    /\ UNCHANGED <<bvars, qvars, sse, hvars>>

NextLocks ==
    \/ \E t \in LockTasks : CallSubscribe(t)
    \/ \E t \in LockTasks : CallPublish(t)
    \/ \E t \in LockTasks : GetListLock(t)
    \/ \E t \in LockTasks : AcquireLock(t)
    \/ \E t \in LockTasks : AddQueue(t)
    \/ \E t \in LockTasks : CloseGenerator(t)
    \/ \E t \in LockTasks : DiscardQueue(t)
    \/ \E t \in LockTasks : DeleteLock(t)
    \/ \E t \in LockTasks : CopySubscribers(t)

SpecLocks == Init /\ [][NextLocks]_vars

---------------------------------------------------------------------------
(* Properties of the EventBroadcaster *)

\* the consuming loop of slot s is running for list_id
Registered(s, list_id) == pc[s] = "waiting" /\ subList[s] = list_id

Ids(q) == [i \in 1..Len(q) |-> q[i].id]

Increasing(q) == \A i, j \in 1..Len(q) : i < j => q[i] < q[j]

Has(q, id) == \E i \in 1..Len(q) : q[i].id = id

\* C1 (fan-out): every publish step is a fan-out for the list L of its event:
\* the event is appended to the mailbox of exactly the subscribers whose loop
\* is running for L and whose mailbox was not full, and every other mailbox
\* (full ones, and those of subscribers of another list) is left as it was.
C1_FanOut ==
    [][ published' = published + 1 =>
          \E L \in Lists :
            \A s \in Subs :
              mailbox'[s] =
                IF Registered(s, L) /\ Len(mailbox[s]) < SUBSCRIBER_QUEUE_SIZE
                THEN Append(mailbox[s], ListEvent(published', L))
                ELSE mailbox[s] ]_vars

\* two subscribers of one list hold the same event, a subscriber of another
\* list that was there when it was published does not
C1_Witness ==
    \E s1, s2, s3 \in Subs :
      /\ s1 # s2
      /\ Registered(s1, "L1") /\ Registered(s2, "L1") /\ Registered(s3, "L2")
      /\ Has(mailbox[s1], published) /\ Has(mailbox[s2], published)
      /\ Len(mailbox[s3]) = 1 /\ mailbox[s3][1].id < published
      /\ \A i \in 1..Len(mailbox[s1]) : mailbox[s1][i].list_id = "L1"

\* C2 (cleanup): the registry holds exactly the mailboxes of the running
\* consuming loops, so subscriber_count(L) is the number of running loops for
\* L and the registry has no entry for a list without one; and every step in
\* which a loop ends lowers subscriber_count of its list by exactly one and
\* leaves the other counts alone.
C2_Cleanup ==
    /\ [](\A L \in Lists :
            /\ Snapshot(L) = {s \in Subs : Registered(s, L)}
            /\ L \in DOMAIN subscribers => subscribers[L] # {})
    /\ [][ \A s \in Subs :
             (pc[s] = "waiting" /\ pc'[s] = "idle") =>
               \A L \in Lists :
                 get_subscriber_count(L)' =
                   get_subscriber_count(L) - (IF L = subList[s] THEN 1 ELSE 0) ]_vars

\* every subscriber has ended, one of them after receiving events, and the
\* registry is empty again
C2_Witness ==
    /\ \A s \in Subs : pc[s] = "idle"
    /\ \E s \in Subs : Len(received[s]) >= 2
    /\ \E s \in Subs : received[s] = <<>>
    /\ DOMAIN subscribers = {}
    /\ \A L \in Lists : get_subscriber_count(L) = 0

\* C3 (publish is never held up by a subscriber): a publish is possible
\* whatever the mailboxes hold and whether or not the clients are still
\* connected; in a publish step a full mailbox of the event's list is left
\* as it was, every other running subscriber of that list gets the event,
\* connected or not, and the registry is not touched.
C3_PublishNeverBlocked ==
    /\ [](published < MaxPublish => \A L \in Lists : ENABLED Publish(L))
    /\ [][ published' = published + 1 =>
             /\ subscribers' = subscribers
             /\ \E L \in Lists : \A s \in Subs : Registered(s, L) =>
                  /\ Len(mailbox[s]) >= SUBSCRIBER_QUEUE_SIZE
                       => mailbox'[s] = mailbox[s]
                  /\ Len(mailbox[s]) < SUBSCRIBER_QUEUE_SIZE
                       => /\ Len(mailbox'[s]) = Len(mailbox[s]) + 1
                          /\ mailbox'[s][Len(mailbox'[s])] = ListEvent(published', L) ]_vars

\* the last event was dropped for a full mailbox and reached a subscriber of
\* the same list whose client had already disconnected
C3_Witness ==
    \E s1, s2 \in Subs :
      /\ Registered(s1, "L1") /\ Registered(s2, "L1")
      /\ Len(mailbox[s1]) = SUBSCRIBER_QUEUE_SIZE
      /\ ~Has(mailbox[s1], published)
      /\ ~connected[s2]
      /\ Has(mailbox[s2], published)
      /\ Len(mailbox[s2]) = 1

\* C4 (per-subscriber FIFO): what a subscriber has been yielded, followed by
\* what waits in its mailbox, is in publish order.
C4_Fifo ==
    \A s \in Subs : Increasing(Ids(received[s] \o mailbox[s]))

\* a subscriber was yielded two events and a third one waits
C4_Witness ==
    \E s \in Subs : Len(received[s]) >= 2 /\ mailbox[s] # <<>>

---------------------------------------------------------------------------
(* Properties of the NotificationQueue *)

\* the timer tasks that are neither cancelled nor finished and will flush key
LiveTimers(key) ==
    {task \in tasks : /\ task.kind = "timer"
                      /\ batch_key(task.user_id, task.list_id) = key}

\* the forced-flush tasks that have not run yet and will flush key
PendingFlushes(key) ==
    {task \in tasks : /\ task.kind = "flush"
                      /\ batch_key(task.user_id, task.list_id) = key}

\* the entry of a map for key, as a set of at most one element
Entry(b, key) == IF key \in DOMAIN b THEN {b[key]} ELSE {}

\* C5 (self-exclusion): no batch, active or flushed, keyed (u, L) holds an
\* event whose actor is u; and a queue_event call leaves the batch and the
\* timers of every key of its actor as they were, so that a call whose only
\* recipient is the actor changes no batch and creates no task.
C5_SelfExclusion ==
    /\ [](\A key \in Keys :
            /\ key \in DOMAIN batches =>
                 \A e \in Range(batches[key].events) : e.actor_user_id # key[1]
            /\ key \in DOMAIN flushed =>
                 \A e \in Range(flushed[key].events) : e.actor_user_id # key[1])
    /\ [][ nextId' = nextId + 1 =>
             /\ \A key \in Keys :
                  key[1] = lastCall'.actor_user_id =>
                    /\ Entry(batches', key) = Entry(batches, key)
                    /\ LiveTimers(key)' = LiveTimers(key)
                    /\ PendingFlushes(key)' = PendingFlushes(key)
             /\ lastCall'.recipient_user_ids = <<lastCall'.actor_user_id>> =>
                  batches' = batches /\ tasks' = tasks ]_vars

\* the last call named its actor among two recipients: the other recipient
\* has the event in a batch, the actor has no batch
C5_Witness ==
    /\ lastCall.actor_user_id = "u1"
    /\ lastCall.recipient_user_ids = <<"u1", "u2">>
    /\ <<"u1", lastCall.list_id>> \notin DOMAIN batches
    /\ <<"u2", lastCall.list_id>> \in DOMAIN batches
    /\ LET b == batches[<<"u2", lastCall.list_id>>] IN
         /\ b.events[Len(b.events)].id = nextId - 1
         /\ b.events[Len(b.events)].actor_user_id = "u1"
         /\ Len(b.events) >= 2

\* C6 (batch coalescing): events for one key that all arrive within
\* INITIAL_DELAY of the first, fewer than MAX_EVENTS of them, are never split:
\* while the flushed batch and the first event of the next batch of the key are
\* fewer than MAX_EVENTS events, the next batch does not start within
\* INITIAL_DELAY of the start of the flushed one.
C6_Coalescing ==
    \A key \in Keys :
      (/\ key \in DOMAIN flushed
       /\ key \in DOMAIN batches
       /\ Len(flushed[key].events) + 1 < MAX_EVENTS)
      => batches[key].started_at >= flushed[key].started_at + INITIAL_DELAY

\* C7 (minimum batching delay): a batch of fewer than MAX_EVENTS events is
\* flushed no earlier than INITIAL_DELAY after its first event.
C7_MinimumDelay ==
    \A key \in DOMAIN flushed :
      Len(flushed[key].events) < MAX_EVENTS
      => flushed[key].at >= flushed[key].started_at + INITIAL_DELAY

\* C8 (bounded latency): every timer is scheduled to fire no later than
\* MAX_DELAY after the started_at of the batch it is created for, no batch
\* stays in the map beyond started_at + MAX_DELAY, and every flush happens no
\* later than MAX_DELAY after the started_at of the batch it pops.
C8_BoundedLatency ==
    /\ [](/\ \A key \in DOMAIN batches :
               now <= batches[key].started_at + MAX_DELAY
          /\ \A key \in DOMAIN flushed :
               flushed[key].at <= flushed[key].started_at + MAX_DELAY)
    /\ [][ \A task \in tasks' \ tasks :
             task.kind = "timer" =>
               LET key == batch_key(task.user_id, task.list_id) IN
                 /\ key \in DOMAIN batches'
                 /\ task.wake <= batches'[key].started_at + MAX_DELAY ]_vars

\* a batch that was extended up to the cap and flushed by its timer exactly
\* MAX_DELAY after its first event
C8_Witness ==
    \E key \in DOMAIN flushed :
      /\ flushed[key].at = flushed[key].started_at + MAX_DELAY
      /\ flushed[key].by = "timer"
      /\ Len(flushed[key].events) >= 2
      /\ Len(flushed[key].events) < MAX_EVENTS

\* C9 (burst force-flush): while a batch with MAX_EVENTS events or more is in
\* the map, a forced-flush task made at the present time is ready to run and
\* the timer of that batch is no longer live; a flush takes the whole batch out
\* of the map, so its events are handed to one flush only: the events of the
\* batch in the map all arrived after those of the batch flushed last.
C9_ForceFlush ==
    /\ [](\A key \in DOMAIN batches :
            /\ Len(batches[key].events) >= MAX_EVENTS =>
                 /\ \E task \in PendingFlushes(key) : task.wake = now
                 /\ \A task \in LiveTimers(key) : task.id # batches[key].timer_task
            /\ key \in DOMAIN flushed =>
                 \A e \in Range(flushed[key].events), f \in Range(batches[key].events) :
                   e.id < f.id)
    /\ [][ \A key \in Keys :
             Entry(flushed', key) # Entry(flushed, key) =>
               /\ key \in DOMAIN batches /\ key \notin DOMAIN batches'
               /\ flushed'[key].events = batches[key].events
               /\ flushed'[key].at = now ]_vars

\* a batch reached MAX_EVENTS before EXTEND_DELAY had passed and was flushed
\* at once by the forced-flush task; no task is left for the key
C9_Witness ==
    \E key \in DOMAIN flushed :
      /\ Len(flushed[key].events) = MAX_EVENTS
      /\ flushed[key].by = "flush"
      /\ flushed[key].at < flushed[key].started_at + EXTEND_DELAY
      /\ key \notin DOMAIN batches
      /\ LiveTimers(key) = {} /\ PendingFlushes(key) = {}

\* C10 (one live timer per key): for each batch key at most one timer task is
\* neither cancelled nor finished.
C10_OneLiveTimer ==
    \A key \in Keys : Cardinality(LiveTimers(key)) <= 1

---------------------------------------------------------------------------
(* Properties of a flush *)

NoDuplicates(q) == \A i, j \in 1..Len(q) : q[i] = q[j] => i = j

\* C11 (pop-before-use): a step that hands a batch to format and send takes
\* the key out of the map in the same step; no event of a batch in the map
\* has been handed to a flush, so an enqueue after the pop went to a fresh
\* batch; and no event was handed to a flush twice.
C11_PopBeforeUse ==
    /\ [](\A key \in Keys :
            /\ key \in DOMAIN delivered => NoDuplicates(delivered[key])
            /\ (key \in DOMAIN delivered /\ key \in DOMAIN batches) =>
                 \A e \in Range(batches[key].events) :
                   e.id \notin Range(delivered[key]))
    /\ [][ \A key \in Keys :
             Entry(delivered', key) # Entry(delivered, key) =>
               key \notin DOMAIN batches' ]_vars

\* the first batch of the key was flushed while delivery failed, and the event
\* enqueued after it is alone in a fresh batch
C11_Witness ==
    \E key \in DOMAIN flushed :
      /\ flushed[key].outcome = "send_failed"
      /\ delivered[key] = <<1>>
      /\ key \in DOMAIN batches
      /\ Len(batches[key].events) = 1
      /\ batches[key].events[1].id = 2

\* C12 (key reuse): an enqueue for a key that has been flushed and has no
\* batch creates a batch that holds exactly the new event, started at the time
\* of the enqueue, with a timer of INITIAL_DELAY.
C12_KeyReuse ==
    [][ \A key \in Keys :
          (/\ nextId' = nextId + 1
           /\ key \in DOMAIN flushed
           /\ key \notin DOMAIN batches
           /\ key \in DOMAIN batches') =>
             /\ Len(batches'[key].events) = 1
             /\ batches'[key].events[1].id = nextId
             /\ batches'[key].events[1] \notin Range(flushed[key].events)
             /\ batches'[key].started_at = now
             /\ batches'[key].timer_task = nextId
             /\ [id |-> nextId, kind |-> "timer", user_id |-> key[1],
                 list_id |-> key[2], wake |-> now + INITIAL_DELAY] \in tasks' ]_vars

\* a second batch of the key, started after the flush of the first
C12_Witness ==
    \E key \in DOMAIN flushed :
      /\ key \in DOMAIN batches
      /\ Len(flushed[key].events) >= 2
      /\ Len(batches[key].events) = 1
      /\ batches[key].started_at = now
      /\ batches[key].started_at >= flushed[key].at
      /\ flushed[key].at > 0

\* C13 (flush failure isolation): a flush whose preference lookup or gateway
\* call raises still takes the batch out of the map, creates no task and
\* changes no other batch, and no exception leaves any flush.
C13_FailureIsolation ==
    /\ [](\A key \in DOMAIN flushed : flushed[key].error = None)
    /\ [][ \A key \in Keys :
             (/\ Entry(flushed', key) # Entry(flushed, key)
              /\ flushed'[key].outcome \in {"lookup_failed", "send_failed"}) =>
                /\ key \notin DOMAIN batches'
                /\ tasks' \subseteq tasks
                /\ flushed'[key].events = batches[key].events
                /\ \A k \in DOMAIN batches \ {key} :
                     Entry(batches', k) = Entry(batches, k) ]_vars

\* the gateway raised in the flush of a batch of two events: the key is
\* absent and nothing is left to run for it
C13_Witness ==
    \E key \in DOMAIN flushed :
      /\ flushed[key].outcome = "send_failed"
      /\ flushed[key].calls = 1
      /\ Len(flushed[key].events) = 2
      /\ key \notin DOMAIN batches
      /\ LiveTimers(key) = {} /\ PendingFlushes(key) = {}

\* the minute of the day of an "HH:MM" text, and of a clock reading
MinuteOfText(text) ==
    ((text[1] - 48) * 10 + (text[2] - 48)) * 60 + (text[4] - 48) * 10 + (text[5] - 48)

MinuteOfClock(clock) == clock[1] * 60 + clock[2]

\* t lies in the half-open window [start, end), which wraps past midnight
\* when start > end
InHalfOpenWindow(start, end, t) ==
    IF start <= end THEN start <= t /\ t < end
    ELSE t >= start \/ t < end

\* the window of the spec applied to the row a flush saw
InQuietHours(seen, clock) ==
    \E row \in seen :
      /\ row.quiet_start # <<>> /\ row.quiet_end # <<>>
      /\ InHalfOpenWindow(MinuteOfText(row.quiet_start), MinuteOfText(row.quiet_end),
                          MinuteOfClock(clock))

\* C14 (preference gating): a flush whose lookup returned calls the gateway
\* zero times when list_updates is off or the wall clock is inside the quiet
\* hours [quiet_start, quiet_end), and otherwise exactly once with the list
\* name as title, the list id as data and list-<list_id> as tag; in both cases
\* the batch has left the map.
C14_PreferenceGating ==
    \A key \in DOMAIN flushed :
      flushed[key].outcome # "lookup_failed" =>
        IF IsOff(flushed[key].seen) \/ InQuietHours(flushed[key].seen, flushed[key].clock)
        THEN flushed[key].calls = 0
        ELSE /\ flushed[key].calls = 1
             /\ flushed[key].sent.title = ListNames[key[2]]
             /\ flushed[key].sent.data = key[2]
             /\ flushed[key].sent.tag = "list-" \o key[2]

\* C15 (quiet-hours window): whenever a flush evaluated the quiet-hours check,
\* the check was true exactly when the wall clock was in the half-open window
\* [quiet_start, quiet_end) of the row, so false at quiet_end and false when
\* a bound is unset.
C15_QuietWindow ==
    \A key \in DOMAIN flushed :
      flushed[key].outcome \in {"quiet", "sent", "send_failed"} =>
        (flushed[key].outcome = "quiet"
           <=> InQuietHours(flushed[key].seen, flushed[key].clock))

\* C17 (single-event batch): a batch flushed with one event, an item_checked
\* of Milk by Amy on Groceries, was flushed exactly INITIAL_DELAY after its
\* enqueue, with the list name as title and "Amy checked off Milk" as body.
C17_SingleEvent ==
    \A key \in DOMAIN flushed :
      Len(flushed[key].events) = 1 =>
        /\ flushed[key].at = flushed[key].started_at + INITIAL_DELAY
        /\ flushed[key].title = "Groceries"
        /\ flushed[key].body = "Amy checked off Milk"

---------------------------------------------------------------------------
(* Properties of the summary *)

\* event_type, item_name and actor_name of the events of a batch
Content(events) ==
    [i \in 1..Len(events) |->
       <<events[i].event_type, events[i].item_name, events[i].actor_name>>]

ThreeCreated ==
    <<<<"item_created", "Eggs", "Amy">>, <<"item_created", "Bread", "Amy">>,
      <<"item_created", "Juice", "Amy">>>>

RuleClause(verb, items) ==
    IF items = <<>> THEN <<>>
    ELSE IF Len(items) <= 3 THEN <<verb \o " " \o Join(", ", items)>>
    ELSE <<verb \o " " \o ToString(Len(items)) \o " items">>

\* the clauses of one actor by the rule, one per action class with an event
RuleClauses(events, actor) ==
    RuleClause("added", Bucket(events, actor, "added")) \o
    RuleClause("checked off", Bucket(events, actor, "checked")) \o
    RuleClause("unchecked", Bucket(events, actor, "unchecked")) \o
    RuleClause("removed", Bucket(events, actor, "deleted")) \o
    RuleClause("updated", Bucket(events, actor, "updated"))

RECURSIVE RuleParts(_, _)
RuleParts(events, actors) ==
    IF actors = <<>> THEN <<>>
    ELSE (IF RuleClauses(events, Head(actors)) = <<>> THEN <<>>
          ELSE <<Head(actors) \o " " \o Join(" and ", RuleClauses(events, Head(actors)))>>)
         \o RuleParts(events, Tail(actors))

\* C19 (summary rendering rule): the body of every flush is made of one
\* clause per actor and action class that has an event, rendered by the rule
\* (name, names joined by commas, count), and is "List updated" only when no
\* event of the batch has a recognizable action.
C19_RenderingRule ==
    \A key \in DOMAIN flushed :
      LET parts == RuleParts(flushed[key].events,
                             actor_order(flushed[key].events, <<>>))
      IN flushed[key].body = IF parts = <<>> THEN "List updated"
                             ELSE Join("; ", parts)

---------------------------------------------------------------------------
(* Properties of the timers of a batch *)

\* the timer task named id of key
TimerOf(ts, key, id) ==
    {task \in ts : /\ task.kind = "timer" /\ task.id = id
                   /\ batch_key(task.user_id, task.list_id) = key}

\* an enqueue step has appended an event to the batch of key, which was in
\* the map, and the batch stays below MAX_EVENTS
Extended(key) ==
    /\ nextId' = nextId + 1
    /\ key \in DOMAIN batches /\ key \in DOMAIN batches'
    /\ Len(batches'[key].events) = Len(batches[key].events) + 1
    /\ Len(batches'[key].events) < MAX_EVENTS

\* C25 (timer extension rule): an enqueue to a batch that stays below
\* MAX_EVENTS appends the event; with a remaining budget MAX_DELAY - elapsed
\* above zero the timer of the batch is cancelled and exactly one new timer
\* is started, to fire min(EXTEND_DELAY, remaining budget) from now, and it
\* becomes the timer of the batch; with no budget left the tasks and the
\* timer of the batch are left as they are.
C25_ExtensionRule ==
    [][ \A key \in Keys :
          Extended(key) =>
            LET batch            == batches[key]
                event            == batches'[key].events[Len(batches'[key].events)]
                elapsed          == now - batch.started_at
                remaining_budget == MAX_DELAY - elapsed
            IN /\ batches'[key].events = Append(batch.events, event)
               /\ event.id = nextId
               /\ IF remaining_budget > 0
                  THEN /\ TimerOf(tasks', key, batch.timer_task) = {}
                       /\ tasks \ tasks' = TimerOf(tasks, key, batch.timer_task)
                       /\ tasks' \ tasks = TimerOf(tasks', key, event.id)
                       /\ \E task \in tasks' \ tasks :
                            /\ tasks' \ tasks = {task}
                            /\ task.wake = now + Min(EXTEND_DELAY, remaining_budget)
                       /\ batches'[key].timer_task = event.id
                  ELSE /\ tasks' = tasks
                       /\ batches'[key].timer_task = batch.timer_task ]_vars

\* a batch below MAX_EVENTS got an event when its budget was used up: its
\* timer is still the one an earlier event started, and that timer is live
C25_Witness ==
    \E key \in DOMAIN batches :
      LET batch == batches[key] IN
      /\ Len(batch.events) >= 2 /\ Len(batch.events) < MAX_EVENTS
      /\ now - batch.started_at >= MAX_DELAY
      /\ batch.events[Len(batch.events)].id = nextId - 1
      /\ batch.timer_task # nextId - 1
      /\ TimerOf(tasks, key, batch.timer_task) # {}

\* C26 (extension never shortens): after an enqueue to a batch that stays
\* below MAX_EVENTS, the timer of the batch fires no earlier than the timer
\* the batch had before the enqueue.
C26_NeverEarlier ==
    [][ \A key \in Keys :
          Extended(key) =>
            \A old \in TimerOf(tasks, key, batches[key].timer_task),
               new \in TimerOf(tasks', key, batches'[key].timer_task) :
                 new.wake >= old.wake ]_vars

\* C27 (bounded burst size): no batch in the map and no batch handed to a
\* flush holds more than MAX_EVENTS events.
C27_BoundedBurst ==
    /\ \A key \in DOMAIN batches : Len(batches[key].events) <= MAX_EVENTS
    /\ \A key \in DOMAIN flushed : Len(flushed[key].events) <= MAX_EVENTS

\* C28 (own flush only): the task that pops a batch is the timer of that
\* batch or a forced-flush task made by an event of that batch; no task made
\* for an earlier batch of the key pops it.
C28_OwnFlushOnly ==
    [][ \A key \in Keys :
          (key \in DOMAIN batches /\ key \notin DOMAIN batches') =>
            \A task \in tasks \ tasks' :
              \/ task.kind = "timer" /\ task.id = batches[key].timer_task
              \/ task.kind = "flush" /\ Has(batches[key].events, task.id) ]_vars

\* event id is in the batch of key
Accepted(key, id) == key \in DOMAIN batches /\ Has(batches[key].events, id)

\* event id of key has been handed to format and send
Flushed(key, id) == key \in DOMAIN delivered /\ id \in Range(delivered[key])

---------------------------------------------------------------------------
(* Properties of the SSE session *)

\* C16 (disconnect release): the liveness check runs each time the bounded
\* wait times out, so a wait that times out while the client is disconnected
\* ends the consuming loop and takes the mailbox out of the registry.
C16_DisconnectRelease ==
    [][ \A s \in Subs :
          (timeouts'[s] = timeouts[s] + 1 /\ ~connected[s]) =>
             /\ pc'[s] = "idle"
             /\ \A L \in Lists : s \notin Snapshot(L)' ]_vars

\* the entries of the session log of slot s with outcome out
Outs(s, out) == {i \in 1..Len(sse[s]) : sse[s][i].out = out}

\* C22 (serialization error): when the conversion of an event to its frame
\* raises, the event is skipped and nothing else happens: the slot keeps
\* waiting on the same list, its mailbox stays in the registry and keeps the
\* later events; every event the subscription yields is handled in the
\* order of its publication, and no session ever ends with an error frame.
C22_SerializationSkip ==
    /\ [][ \A s \in Subs :
             (/\ Len(sse'[s]) = Len(sse[s]) + 1
              /\ sse'[s][Len(sse'[s])].out # "frame") =>
                /\ sse'[s][Len(sse'[s])].out = "skipped"
                /\ pc'[s] = "waiting"
                /\ subList'[s] = subList[s]
                /\ s \in Snapshot(subList[s])'
                /\ mailbox'[s] = Tail(mailbox[s]) ]_vars
    /\ [](\A s \in Subs : /\ Ids(sse[s]) = Ids(received[s])
                          /\ Increasing(Ids(sse[s]))
                          /\ Outs(s, "error") = {})

\* an event was skipped and a later event reached the client as a frame on
\* the same, still open, session
C22_Witness ==
    \E s \in Subs :
      /\ pc[s] = "waiting"
      /\ s \in Snapshot(subList[s])
      /\ \E i \in Outs(s, "skipped"), j \in Outs(s, "frame") :
            i < j /\ sse[s][i].id < sse[s][j].id

\* C30 (no lock leak): between two calls the lock map has an entry only
\* for lists that have a registered subscriber.
C30_NoLockLeak == \A list_id \in locks : get_subscriber_count(list_id) > 0

---------------------------------------------------------------------------
(* Properties of the locks of the EventBroadcaster *)

\* the tasks inside async with lock for the list
Inside == {t \in LockTasks : lpc[t] \in InsideLabels}

\* the locks task t holds
HeldBy(t) == {l \in DOMAIN held : held[l] = t}

\* C23 (registry mutual exclusion): at most one task at a time is inside
\* the critical section of the list, whatever lock object it entered with,
\* also after the last unsubscribe has deleted the lock entry and a new lock
\* has been made; a task inside holds the only lock of a list that is held,
\* and it is the current lock of the list except while it deletes that entry.
C23_MutualExclusion ==
    /\ Cardinality(Inside) <= 1
    /\ Cardinality(DOMAIN held \ {global_lock}) <= 1
    /\ \A t \in Inside :
         /\ held[LockOf(t)] = t
         /\ LockList \in DOMAIN list_locks /\ list_locks[LockList] = LockOf(t)

\* the lock entry was deleted by a last unsubscribe and made again, and a
\* publish is inside the critical section while a subscriber is registered
C23_Witness ==
    /\ lockCount >= 2
    /\ \E t, u \in LockTasks :
         /\ lpc[t] = "p_in"
         /\ lpc[u] = "waiting"
         /\ u \in registry[LockList]

\* C24 (no lock across the wait): a task that waits in queue.get() holds no
\* lock, neither the lock of its list nor the global lock; and whenever the
\* loop picks the next task no lock is held at all, so every task that is at
\* an acquire can go on.
C24_NoLockWhileWaiting ==
    /\ \A t \in LockTasks : lpc[t] = "waiting" => HeldBy(t) = {}
    /\ running = None =>
         /\ \A t \in LockTasks : lpc[t] \in AcquireLabels => LockOf(t) \notin DOMAIN held
         /\ \A t \in LockTasks : lpc[t] \in GetLabels \cup {"f_global"} =>
                                    global_lock \notin DOMAIN held

\* one task waits in queue.get() while another is inside the critical
\* section of the same list with the same lock
C24_Witness ==
    \E t, u \in LockTasks :
      /\ lpc[t] = "waiting"
      /\ lpc[u] \in {"s_in", "f_in", "p_in"}
      /\ lock[u] = lock[t]
      /\ HeldBy(u) = lock[u]

---------------------------------------------------------------------------
(* Properties of the mutation handlers *)

\* the owner of the list and the users with a share on it
OwnerAndShares(list_id) == db[list_id].owner_id \cup Range(db[list_id].shares)

\* a background task of mutation m has not run yet
Pending(m) == \E i \in 1..Len(background_tasks) : background_tasks[i].mutation = m

\* the tasks a handler step adds
Added_tasks == SubSeq(background_tasks', Len(background_tasks) + 1, Len(background_tasks'))

\* C21 as claimed (once per mutation): every committed mutation of a list or
\* item handler whose deferred work is done has caused exactly one publish
\* and exactly one queue_event call.
C21_OncePerMutation ==
    \A m \in 1..Len(handled) :
      ~Pending(m) => calls[m].publish = 1 /\ calls[m].enqueue = 1

\* C21 (once per item event): an item handler adds, at its commit, one
\* background task for each item event of the mutation (one for each created
\* item, one otherwise) and a list handler adds none; each task carries the
\* owner and the sharing users of the list as they are at the commit, each
\* once; a task that runs calls publish once and, if its recipients are not
\* empty, queue_event once with the recipients it carries, whatever the
\* shares have become; so a finished mutation has one publish for each item
\* event and never more enqueues than publishes.
C21_OncePerItemEvent ==
    /\ [][ /\ Len(handled') = Len(handled) + 1 =>
                LET m == Len(handled')
                    h == handled'[m]
                IN /\ Len(Added_tasks) = IF h.handler \in ItemHandlers
                                         THEN h.items ELSE 0
                   /\ \A i \in 1..Len(Added_tasks) :
                        /\ Added_tasks[i].mutation = m
                        /\ Range(Added_tasks[i].recipient_ids) = OwnerAndShares(h.list_id)
                        /\ NoDuplicates(Added_tasks[i].recipient_ids)
           /\ published' = published + 1 =>
                LET t == Head(background_tasks) IN
                   /\ background_tasks' = Tail(background_tasks)
                   /\ request'.recipient_user_ids = t.recipient_ids
                   /\ calls'[t.mutation].publish = calls[t.mutation].publish + 1
                   /\ IF t.recipient_ids # <<>>
                      THEN /\ calls'[t.mutation].enqueue = calls[t.mutation].enqueue + 1
                           /\ nextId' = nextId + 1
                           /\ lastCall'.recipient_user_ids = t.recipient_ids
                      ELSE /\ calls'[t.mutation].enqueue = calls[t.mutation].enqueue
                           /\ nextId' = nextId ]_vars
    /\ [](\A m \in 1..Len(handled) :
            ~Pending(m) =>
               /\ calls[m].publish = IF handled[m].handler \in ItemHandlers
                                     THEN handled[m].items ELSE 0
               /\ calls[m].enqueue <= calls[m].publish)

\* a create_items of two items is finished with two publishes and two
\* enqueues, made for the owner and a sharing user who has lost the share since
C21_Witness ==
    \E m \in 1..Len(handled) :
      /\ handled[m].handler = "create_items" /\ handled[m].items = 2
      /\ ~Pending(m)
      /\ calls[m].publish = 2 /\ calls[m].enqueue = 2
      /\ m = Len(handled)
      /\ Len(request.recipient_user_ids) = 2
      /\ Range(request.recipient_user_ids) # OwnerAndShares(handled[m].list_id)

---------------------------------------------------------------------------
(* Properties of the request path *)

\* C20 (request-path isolation): no exception of publish or queue_event
\* reaches the caller of publish_event_async; a call with recipients runs
\* queue_event whatever publish did, and when queue_event does its work the
\* event is in the batch of the other recipient; when publish did its work
\* the event is in the mailboxes whatever queue_event did.
C20_RequestIsolation ==
    /\ [](request.raised = None)
    /\ [][ published' = published + 1 =>
             /\ request'.recipient_user_ids # <<>> => request'.enqueue # "not_called"
             /\ request'.enqueue \in {"ok", "raises_after"} =>
                  /\ nextId' = nextId + 1
                  /\ <<"u2", "L1">> \in DOMAIN batches'
                  /\ \E e \in Range(batches'[<<"u2", "L1">>].events) : e.id = nextId
             /\ request'.publish # "raises_before" =>
                  \A s \in Subs :
                    (Registered(s, "L1") /\ Len(mailbox[s]) < SUBSCRIBER_QUEUE_SIZE) =>
                       Has(mailbox'[s], published') ]_vars

\* publish raised, yet the event of that call is in the batch of the other
\* recipient, next to an earlier one, and in no mailbox
C20_Witness ==
    /\ request.publish = "raises_before"
    /\ request.enqueue = "ok"
    /\ <<"u2", "L1">> \in DOMAIN batches
    /\ LET b == batches[<<"u2", "L1">>] IN
         /\ Len(b.events) >= 2
         /\ b.events[Len(b.events)].id = nextId - 1
    /\ \E s \in Subs : Registered(s, "L1") /\ ~Has(mailbox[s], published)

=============================================================================
